---- MODULE Spec2Model ----
(***************************************************************************)
(* Challenge campaign engine of smarter-dev: release/announcement flags,   *)
(* per-squad input generation, submission arbitration and scoring.         *)
(* Every request is a process that walks through the database statements   *)
(* of its handler; the statements of different requests interleave.        *)
(***************************************************************************)
EXTENDS Integers, Sequences, FiniteSets, TLC

VARIABLES
    now,                \* datetime.now(timezone.utc), in hours
    challenges,         \* table challenges: id -> release/announcement columns
    challenge_inputs,   \* table challenge_inputs: set of rows
    submissions,        \* table challenge_submissions: rows in insertion order
    procs,              \* the requests in flight: position and locals of each
    lastResp,           \* the response of the request that completed last
    scriptRuns,         \* executions of the generator script per (challenge, squad)
    ledger,             \* system rewards credited so far (bytes transactions)
    quest_submissions   \* QuestSubmission rows of the daily quest, in commit order

vars == <<now, challenges, challenge_inputs, submissions, procs, lastResp,
          scriptRuns, ledger,
                   quest_submissions>>

----------------------------------------------------------------------------
(* Bounds of the model *)

MaxTime == 2
MaxSubmissions == 2
MaxScriptRuns == 2

(* The campaign of the model *)

NumChallenges == 2
CadenceHours == 1

(* Program constants *)

None == -1
MAX_POINTS == 4096
CampaignStart == 0

Procs == {"p1", "p2"}
ChallengeIds == 1..NumChallenges
UnknownChallenge == 0
Squads == {"A", "B"}
NoSquad == "none"
Users == {"u1", "u2", "u3"}
Scripts == {"gen", "bad"}
Texts == {<<"a", " ">>, <<"7">>}

----------------------------------------------------------------------------
(* Collaborators: squad membership *)

get_user_squad(user) ==
    CASE user = "u1" -> "A"
      [] user = "u2" -> "A"
      [] user = "u3" -> "B"
      [] OTHER -> NoSquad

get_squad_members(squad) == {u \in Users : get_user_squad(u) = squad}

----------------------------------------------------------------------------
(* Strings are sequences of characters *)

IsSpace(ch) == ch = " "

RECURSIVE LStrip(_)
LStrip(s) ==
    IF s = <<>> THEN <<>>
    ELSE IF IsSpace(Head(s)) THEN LStrip(Tail(s)) ELSE s

RECURSIVE RStrip(_)
RStrip(s) ==
    IF s = <<>> THEN <<>>
    ELSE IF IsSpace(s[Len(s)]) THEN RStrip(SubSeq(s, 1, Len(s) - 1)) ELSE s

Strip(s) == RStrip(LStrip(s))

(* JSON values printed by a generator script: a string or a number *)
JStr(s) == [t |-> "str", s |-> s, n |-> 0]
JInt(n) == [t |-> "int", s |-> <<>>, n |-> n]

Digit(d) ==
    CASE d = 0 -> "0" [] d = 1 -> "1" [] d = 2 -> "2" [] d = 3 -> "3"
      [] d = 4 -> "4" [] d = 5 -> "5" [] d = 6 -> "6" [] d = 7 -> "7"
      [] d = 8 -> "8" [] OTHER -> "9"

RECURSIVE Digits(_)
Digits(n) == IF n < 10 THEN <<Digit(n)>> ELSE Digits(n \div 10) \o <<Digit(n % 10)>>

Str(v) == IF v.t = "str" THEN v.s ELSE Digits(v.n)

(* What a run of a script leaves on stdout, after json.loads *)
Payload(kind, input, result) == [kind |-> kind, input |-> input, result |-> result]

ScriptOutputs(script) ==
    IF script = "gen"
    THEN {Payload("object", JStr(<<"i">>), JStr(<<" ", "a">>)),
          Payload("object", JInt(7), JInt(7))}
    ELSE {Payload("raise", JInt(0), JInt(0)),
          Payload("notjson", JInt(0), JInt(0)),
          Payload("notobject", JInt(0), JInt(0)),
          Payload("nokeys", JInt(0), JInt(0))}

----------------------------------------------------------------------------
(* ReleaseClock *)

order_position(c) == c

calculate_release_time(c) == CampaignStart + (order_position(c) - 1) * CadenceHours

----------------------------------------------------------------------------
(* Queries *)

get_input_by_squad(c, s) ==
    {r \in challenge_inputs : r.challenge_id = c /\ r.squad_id = s}

SubmissionRows == {submissions[i] : i \in 1..Len(submissions)}

(* The query without its squad filter: one winner slot per challenge *)
first_success_of_any_squad(c, s) ==
    {r \in SubmissionRows :
        /\ r.challenge_id = c
        /\ r.is_correct
        /\ r.is_first_success}

(* The query that overlooks a first success stored with 0 points *)
first_success_with_points(c, s) ==
    {r \in SubmissionRows :
        /\ r.challenge_id = c
        /\ r.squad_id = s
        /\ r.is_correct
        /\ r.is_first_success
        /\ r.points_earned > 0}

_get_first_success_for_squad(c, s) ==
    {r \in SubmissionRows :
        /\ r.challenge_id = c
        /\ r.squad_id = s
        /\ r.is_correct
        /\ r.is_first_success}

----------------------------------------------------------------------------
(* ScoringEngine *)

LinearPoints(t0, t, end) == (MAX_POINTS * (end - t)) \div (end - t0)

LogDecayPermille(elapsed) ==
    CASE elapsed <= 0 -> 0
      [] elapsed = 1 -> 631
      [] OTHER -> 1000

(* A curve whose early decay runs down to nothing before the linear part
   takes over *)
points_with_restart(t0, t, end) ==
    IF t >= end THEN 0
    ELSE IF t <= t0 THEN MAX_POINTS
    ELSE IF end - t0 >= 3 /\ t - t0 <= 2
         THEN MAX_POINTS - (MAX_POINTS * LogDecayPermille(t - t0)) \div 1000
         ELSE LinearPoints(t0, t, end)

calculate_challenge_points(t0, t, end) ==
    IF t >= end THEN 0
    ELSE IF t <= t0 THEN MAX_POINTS
    ELSE IF end - t0 >= 3 /\ t - t0 <= 2
         THEN MAX_POINTS
              - ((MAX_POINTS - LinearPoints(t0, t0 + 2, end))
                 * LogDecayPermille(t - t0)) \div 1000
         ELSE LinearPoints(t0, t, end)

CampaignEnd == CampaignStart + Cardinality(ChallengeIds) * CadenceHours

(* The scoring that gives up with None instead of 0 *)
calculate_points_or_none(c, input_generated_at) ==
    IF c \notin ChallengeIds \/ now >= CampaignEnd THEN None
    ELSE calculate_challenge_points(input_generated_at, now, CampaignEnd)

(* The scoring that takes the challenge's own release window for the end *)
calculate_points_own_window(c, input_generated_at) ==
    LET challenge_end_time == CampaignStart + order_position(c) * CadenceHours
    IN  IF c \notin ChallengeIds THEN 0
        ELSE calculate_challenge_points(input_generated_at, now, challenge_end_time)

_calculate_points(c, input_generated_at) ==
    LET num_challenges == Cardinality(ChallengeIds)
        challenge_end_time == CampaignStart + num_challenges * CadenceHours
    IN  IF c \notin ChallengeIds \/ num_challenges = 0 THEN 0
        ELSE calculate_challenge_points(input_generated_at, now, challenge_end_time)

----------------------------------------------------------------------------
(* Initial state: a campaign with its challenges, nothing released *)

NewChallenge ==
    [is_released |-> FALSE, released_at |-> None,
     is_announced |-> FALSE, announced_at |-> None]

Idle ==
    [pc |-> "idle", ch |-> 0, squad |-> NoSquad, user |-> "none",
     text |-> <<>>, input_data |-> <<>>, result_data |-> <<>>, origin |-> None,
     is_correct |-> FALSE, is_first_success |-> FALSE, points_earned |-> None,
     hadRow |-> FALSE, hadFirst |-> FALSE, failed |-> FALSE]

NoResp ==
    [op |-> "none", ch |-> 0, squad |-> NoSquad, script |-> "none", status |-> 0,
     input_data |-> <<>>, result_data |-> <<>>,
     is_correct |-> FALSE, is_first_success |-> FALSE, points_earned |-> None,
     exists |-> FALSE, hadRow |-> FALSE, hadFirst |-> FALSE, failed |-> FALSE,
     listed |-> {}, window |-> 0, campaign |-> "none", scoreboard |-> <<>>,
     args |-> [t0 |-> 0, t |-> 0, end |-> 0], error |-> "none"]

Init ==
    /\ now = CampaignStart
    /\ challenges = [c \in ChallengeIds |-> NewChallenge]
    /\ challenge_inputs = {}
    /\ submissions = <<>>
    /\ procs = [p \in Procs |-> Idle]
    /\ lastResp = NoResp
    /\ scriptRuns = [c \in ChallengeIds |-> [s \in Squads |-> 0]]
    /\ ledger = <<>>
    /\ quest_submissions = <<>>

Free(p) == procs[p].pc = "idle"

Response(op, c, squad, status) ==
    [NoResp EXCEPT !.op = op, !.ch = c, !.squad = squad, !.status = status]

(* What the properties observe of a request, besides its response: whether
   the squad's input row, or its first-success row, was there when the
   request reached the database *)
InputRowExists(c, squad) ==
    \E r \in challenge_inputs : r.challenge_id = c /\ r.squad_id = squad

FirstSuccessExists(c, squad) ==
    \E i \in 1..Len(submissions) :
        /\ submissions[i].challenge_id = c
        /\ submissions[i].squad_id = squad
        /\ submissions[i].is_first_success

(* The request of process p ends with response resp *)
Respond(p, resp) ==
    /\ procs' = [procs EXCEPT ![p] = Idle]
    /\ lastResp' = resp

----------------------------------------------------------------------------
(* The clock *)

Tick ==
    /\ now < MaxTime
    /\ now' = now + 1
    /\ UNCHANGED <<challenges, challenge_inputs, submissions, procs, lastResp,
                   scriptRuns, ledger,
                   quest_submissions>>

----------------------------------------------------------------------------
(* mark-released / mark-announced: one UPDATE statement and a commit each;
   rowcount = 0 (unknown challenge) is answered 404 *)

mark_challenge_released(c) ==
    [challenges EXCEPT ![c].is_released = TRUE, ![c].released_at = now]

mark_challenge_announced(c) ==
    [challenges EXCEPT ![c].is_announced = TRUE, ![c].announced_at = now]

MarkStatus(c) == IF c \in ChallengeIds THEN 200 ELSE 404

MarkReleased(c) ==
    /\ challenges' = IF c \in ChallengeIds THEN mark_challenge_released(c)
                     ELSE challenges
    /\ lastResp' = Response("mark_released", c, NoSquad, MarkStatus(c))
    /\ UNCHANGED <<now, challenge_inputs, submissions, procs, scriptRuns, ledger,
                   quest_submissions>>

MarkAnnounced(c) ==
    /\ challenges' = IF c \in ChallengeIds THEN mark_challenge_announced(c)
                     ELSE challenges
    /\ lastResp' = Response("mark_announced", c, NoSquad, MarkStatus(c))
    /\ UNCHANGED <<now, challenge_inputs, submissions, procs, scriptRuns, ledger,
                   quest_submissions>>

----------------------------------------------------------------------------
(* GET /challenges/{id}/input-exists *)

InputExists(p, c, user) ==
    /\ Free(p)
    /\ LET squad == get_user_squad(user)
       IN  IF squad = NoSquad
           THEN Respond(p, Response("exists", c, squad, 404))
           ELSE Respond(p, [Response("exists", c, squad, 200) EXCEPT
                               !.exists = get_input_by_squad(c, squad) # {}])
    /\ UNCHANGED <<now, challenges, challenge_inputs, submissions, scriptRuns, ledger,
                   quest_submissions>>

----------------------------------------------------------------------------
(* GET /challenges/{id}/input: the router's checks, then get_or_create_input *)

NoScript == "none"

(* A router that serves input whatever the release flag says *)
InputPreludeUngated(c, user, script) ==
    IF get_user_squad(user) = NoSquad THEN 404
    ELSE IF c \notin ChallengeIds THEN 404
    ELSE IF script = NoScript THEN 404
    ELSE 200

InputPrelude(c, user, script) ==
    IF get_user_squad(user) = NoSquad THEN 404
    ELSE IF c \notin ChallengeIds THEN 404
    ELSE IF ~challenges[c].is_released THEN 403
    ELSE IF script = NoScript THEN 404
    ELSE 200

RECURSIVE SumOver(_, _)
SumOver(f, S) ==
    IF S = {} THEN 0
    ELSE LET x == CHOOSE y \in S : TRUE IN f[x] + SumOver(f, S \ {x})

TotalScriptRuns ==
    SumOver([cs \in ChallengeIds \X Squads |-> scriptRuns[cs[1]][cs[2]]],
            ChallengeIds \X Squads)

(* _execute_script: the JSON contract on what the script printed *)
ScriptOk(payload) == payload.kind = "object"

(* What _execute_script raises for an output that breaks the contract, or
   for a script that raised: always ScriptExecutionError *)
_execute_script_raises(payload) == "ScriptExecutionError"

(* What leaves get_or_create_input when something was raised inside it: the
   handler rolls back and raises DatabaseOperationError in its place *)
get_or_create_input_raises(raised) == "DatabaseOperationError"

(* A get_or_create_input that never looks for the existing row *)
NeverReturnExisting(c, squad) == FALSE

(* get_or_create_input returns the existing row without running anything *)
ReturnExisting(c, squad) == get_input_by_squad(c, squad) # {}

(* First statement of get_or_create_input: read the existing row; when there
   is none, run the script (local work, no database access) *)
InputStart(p, c, user, script) ==
    /\ Free(p)
    /\ LET squad == get_user_squad(user)
           st == InputPrelude(c, user, script)
       IN  IF st # 200
           THEN /\ Respond(p, Response("input", c, squad, st))
                /\ UNCHANGED scriptRuns
           ELSE IF ReturnExisting(c, squad)
           THEN LET existing_input == CHOOSE r \in get_input_by_squad(c, squad) : TRUE
                IN  /\ Respond(p, [Response("input", c, squad, 200) EXCEPT
                                      !.input_data = existing_input.input_data,
                                      !.result_data = existing_input.result_data,
                                      !.script = script,
                                      !.hadRow = InputRowExists(c, squad)])
                    /\ UNCHANGED scriptRuns
           ELSE /\ TotalScriptRuns < MaxScriptRuns
                /\ \E payload \in ScriptOutputs(script) :
                    /\ scriptRuns' = [scriptRuns EXCEPT ![c][squad] = @ + 1]
                    /\ IF ScriptOk(payload)
                       THEN /\ procs' = [procs EXCEPT ![p] =
                                   [Idle EXCEPT !.pc = "gi_commit",
                                         !.ch = c, !.squad = squad,
                                         !.hadRow = InputRowExists(c, squad),
                                         !.input_data = Str(payload.input),
                                         !.result_data = Str(payload.result)]]
                            /\ UNCHANGED lastResp
                       ELSE Respond(p, [Response("input", c, squad, 500) EXCEPT
                                           !.hadRow = InputRowExists(c, squad),
                                           !.failed = TRUE,
                                           !.error = get_or_create_input_raises(
                                                        _execute_script_raises(payload))])
    /\ UNCHANGED <<now, challenges, challenge_inputs, submissions, ledger,
                   quest_submissions>>

NewInputRow(p) ==
    [challenge_id |-> procs[p].ch, squad_id |-> procs[p].squad,
     input_data |-> procs[p].input_data, result_data |-> procs[p].result_data,
     created_at |-> now]

(* session.add + commit: the primary key (challenge_id, squad_id) rejects a
   second row, the handler rolls back and answers 500 *)
(* A table without the primary key: the second insert goes through *)
NoInputConflict(p) == FALSE

InputConflict(p) == get_input_by_squad(procs[p].ch, procs[p].squad) # {}

InputCommit(p) ==
    /\ procs[p].pc = "gi_commit"
    /\ IF InputConflict(p)
       THEN /\ Respond(p, [Response("input", procs[p].ch, procs[p].squad, 500) EXCEPT
                              !.error = get_or_create_input_raises("IntegrityError")])
            /\ UNCHANGED challenge_inputs
       ELSE /\ challenge_inputs' = challenge_inputs \cup {NewInputRow(p)}
            /\ Respond(p, [Response("input", procs[p].ch, procs[p].squad, 200) EXCEPT
                              !.input_data = procs[p].input_data,
                              !.result_data = procs[p].result_data])
    /\ UNCHANGED <<now, challenges, submissions, scriptRuns, ledger,
                   quest_submissions>>

----------------------------------------------------------------------------
(* POST /challenges/{id}/submit-solution: the router's checks, then
   ChallengeSubmissionOperations.submit_solution *)

SubmitPrelude(c, user) ==
    IF get_user_squad(user) = NoSquad THEN 404
    ELSE IF c \notin ChallengeIds THEN 404
    ELSE IF ~challenges[c].is_released THEN 403
    ELSE 200

InFlightSubmits == Cardinality({q \in Procs : procs[q].pc \in {"ss_first", "ss_commit"}})

IsCorrect(result_data, submitted_solution) == Strip(result_data) = Strip(submitted_solution)

(* read-input: fetch the squad's ChallengeInput and compare; a missing row is
   a ValueError, which the router answers 500 *)
SubmitStart(p, c, user, text) ==
    /\ Free(p)
    /\ Len(submissions) + InFlightSubmits < MaxSubmissions
    /\ LET squad == get_user_squad(user)
           st == SubmitPrelude(c, user)
           hadFirst == FirstSuccessExists(c, squad)
       IN  IF st # 200
           THEN Respond(p, [Response("submit", c, squad, st) EXCEPT !.hadFirst = hadFirst])
           ELSE IF get_input_by_squad(c, squad) = {}
           THEN Respond(p, [Response("submit", c, squad, 500) EXCEPT !.hadFirst = hadFirst])
           ELSE LET challenge_input == CHOOSE r \in get_input_by_squad(c, squad) : TRUE
                    is_correct == IsCorrect(challenge_input.result_data, text)
                IN  /\ procs' = [procs EXCEPT ![p] =
                          [Idle EXCEPT !.pc = IF is_correct THEN "ss_first" ELSE "ss_commit",
                                     !.ch = c, !.squad = squad,
                                     !.user = user, !.text = text,
                                     !.origin = challenge_input.created_at,
                                     !.is_correct = is_correct,
                                     !.hadFirst = hadFirst]]
                    /\ UNCHANGED lastResp
    /\ UNCHANGED <<now, challenges, challenge_inputs, submissions, scriptRuns, ledger,
                   quest_submissions>>

(* Every correct submission taken for a first success *)
AlwaysFirstSuccess(c, squad) == TRUE

(* is_first_success = existing_success is None *)
IsFirstSuccess(c, squad) == _get_first_success_for_squad(c, squad) = {}

(* read-existing-first-success, then score a first success *)
SubmitFirst(p) ==
    /\ procs[p].pc = "ss_first"
    /\ LET is_first_success == IsFirstSuccess(procs[p].ch, procs[p].squad)
       IN  procs' = [procs EXCEPT
               ![p].pc = "ss_commit",
               ![p].is_first_success = is_first_success,
               ![p].points_earned =
                   IF is_first_success
                   THEN _calculate_points(procs[p].ch, procs[p].origin)
                   ELSE None]
    /\ UNCHANGED <<now, challenges, challenge_inputs, submissions, lastResp,
                   scriptRuns, ledger,
                   quest_submissions>>

(* A row that does not keep what was submitted *)
BlankSubmissionRow(p) ==
    [challenge_id |-> procs[p].ch, squad_id |-> procs[p].squad,
     user_id |-> procs[p].user, submitted_solution |-> <<>>,
     is_correct |-> FALSE,
     is_first_success |-> procs[p].is_first_success,
     points_earned |-> procs[p].points_earned]

NewSubmissionRow(p) ==
    [challenge_id |-> procs[p].ch, squad_id |-> procs[p].squad,
     user_id |-> procs[p].user, submitted_solution |-> procs[p].text,
     is_correct |-> procs[p].is_correct,
     is_first_success |-> procs[p].is_first_success,
     points_earned |-> procs[p].points_earned]

(* insert-row and commit; nothing is credited to the ledger *)
SubmitCommit(p) ==
    /\ procs[p].pc = "ss_commit"
    /\ submissions' = Append(submissions, NewSubmissionRow(p))
    /\ Respond(p, [Response("submit", procs[p].ch, procs[p].squad, 200) EXCEPT
                      !.is_correct = procs[p].is_correct,
                      !.is_first_success = procs[p].is_first_success,
                      !.points_earned = procs[p].points_earned,
                      !.hadFirst = procs[p].hadFirst,
                      !.failed = procs[p].failed])
    /\ UNCHANGED <<now, challenges, challenge_inputs, scriptRuns, ledger,
                   quest_submissions>>

----------------------------------------------------------------------------

(* Every operation of the engine, as the members of one squad and the poller
   exercise it on the first challenge of the campaign *)
FirstChallenge == {c \in ChallengeIds : order_position(c) = 1}

Next ==
    \/ Tick
    \/ \E c \in FirstChallenge : MarkReleased(c)
    \/ \E c \in FirstChallenge : MarkAnnounced(c)
    \/ \E p \in Procs, c \in FirstChallenge, u \in get_squad_members("A") :
          InputExists(p, c, u)
    \/ \E p \in Procs, c \in FirstChallenge, u \in get_squad_members("A"),
          s \in Scripts : InputStart(p, c, u, s)
    \/ \E p \in Procs : InputCommit(p)
    \/ \E p \in Procs, c \in FirstChallenge, u \in get_squad_members("A"),
          t \in Texts : SubmitStart(p, c, u, t)
    \/ \E p \in Procs : SubmitFirst(p)
    \/ \E p \in Procs : SubmitCommit(p)

Spec == Init /\ [][Next]_vars

(* Input generation, from the state in which the poller has released every
   challenge at the campaign start *)
InitInput ==
    /\ now = CampaignStart
    /\ challenges = [c \in ChallengeIds |->
            [NewChallenge EXCEPT !.is_released = TRUE, !.released_at = CampaignStart]]
    /\ challenge_inputs = {}
    /\ submissions = <<>>
    /\ procs = [p \in Procs |-> Idle]
    /\ lastResp = Response("mark_released", NumChallenges, NoSquad, 200)
    /\ scriptRuns = [c \in ChallengeIds |-> [s \in Squads |-> 0]]
    /\ ledger = <<>>
    /\ quest_submissions = <<>>

NextInput ==
    \/ Tick
    \/ \E p \in Procs, c \in ChallengeIds, u \in Users : InputExists(p, c, u)
    \/ \E p \in Procs, c \in ChallengeIds, u \in Users, s \in Scripts \cup {NoScript} :
          InputStart(p, c, u, s)
    \/ \E p \in Procs : InputCommit(p)

SpecInput == InitInput /\ [][NextInput]_vars

(* Submission arbitration, from a state the input generation reaches: every
   challenge released at the campaign start, the squads' inputs generated
   then, except squad B's input for the last challenge *)
GeneratedInput(c, s) ==
    [challenge_id |-> c, squad_id |-> s,
     input_data |-> IF s = "A" THEN <<"i">> ELSE <<"7">>,
     result_data |-> IF s = "A" THEN <<" ", "a">> ELSE <<"7">>,
     created_at |-> CampaignStart]

InitSubmit ==
    /\ now = CampaignStart
    /\ challenges = [c \in ChallengeIds |->
            [NewChallenge EXCEPT !.is_released = TRUE, !.released_at = CampaignStart]]
    /\ challenge_inputs =
            {GeneratedInput(c, s) : c \in ChallengeIds, s \in Squads}
              \ {GeneratedInput(NumChallenges, "B")}
    /\ submissions = <<>>
    /\ procs = [p \in Procs |-> Idle]
    /\ lastResp = [Response("input", 1, "A", 200) EXCEPT
                      !.input_data = <<"i">>, !.result_data = <<" ", "a">>]
    /\ scriptRuns = [c \in ChallengeIds |-> [s \in Squads |->
            IF GeneratedInput(c, s) \in challenge_inputs THEN 1 ELSE 0]]
    /\ ledger = <<>>
    /\ quest_submissions = <<>>

NextSubmit ==
    \/ Tick
    \/ \E p \in Procs, c \in ChallengeIds, u \in Users, t \in Texts :
          SubmitStart(p, c, u, t)
    \/ \E p \in Procs : SubmitFirst(p)
    \/ \E p \in Procs : SubmitCommit(p)

SpecSubmit == InitSubmit /\ [][NextSubmit]_vars

(* The release clock alone: the announcement poller and the passing of time *)
NextRelease ==
    \/ Tick
    \/ \E c \in ChallengeIds \cup {UnknownChallenge} : MarkReleased(c)
    \/ \E c \in ChallengeIds \cup {UnknownChallenge} : MarkAnnounced(c)

SpecRelease == Init /\ [][NextRelease]_vars

----------------------------------------------------------------------------
(* Properties *)

RowIndexes == 1..Len(submissions)

FirstSuccessIndexes(c, s) ==
    {i \in RowIndexes :
        /\ submissions[i].challenge_id = c
        /\ submissions[i].squad_id = s
        /\ submissions[i].is_correct
        /\ submissions[i].is_first_success}

(* C1: for every (challenge, squad), at most one correct submission row is
   marked is_first_success, whatever the interleaving of the squad's
   concurrent submit_solution calls. *)
C1_AtMostOneFirstSuccess ==
    \A c \in ChallengeIds, s \in Squads : Cardinality(FirstSuccessIndexes(c, s)) <= 1

(* C2: every submission row has points_earned set if and only if it is a
   first success: incorrect rows and correct non-first rows carry no points,
   a first success carries a number even when the score is 0. *)
C2_PointsIffFirstSuccess ==
    \A i \in RowIndexes :
        (submissions[i].points_earned # None) <=> submissions[i].is_first_success

C2_Witness ==
    /\ \E i \in RowIndexes :
          submissions[i].is_first_success /\ submissions[i].points_earned = 0
    /\ \E i \in RowIndexes :
          ~submissions[i].is_first_success /\ submissions[i].points_earned = None

(* C3: concurrent first get_or_create_input calls for one (challenge, squad)
   execute the generator script at most once: no two calls in flight both
   hold a script output for the pair, and none holds one once the pair's row
   is stored. *)
HoldingOutput(c, s) ==
    {p \in Procs : procs[p].pc = "gi_commit" /\ procs[p].ch = c /\ procs[p].squad = s}

C3_ScriptExecutedOnce ==
    \A c \in ChallengeIds, s \in Squads :
        Cardinality(HoldingOutput(c, s)) + (IF InputRowExists(c, s) THEN 1 ELSE 0) <= 1

(* C4: a get_or_create_input call made when the pair's row exists does not
   run the script and returns the stored (input, result), whatever script it
   is given; every successful call returns the pair of the stored row, which
   is the pair the first successful call returned. *)
C4_LaterCallsReturnStored ==
    /\ \A p \in Procs : procs[p].pc = "gi_commit" => ~procs[p].hadRow
    /\ (lastResp.op = "input" /\ lastResp.hadRow) => lastResp.status = 200
    /\ (lastResp.op = "input" /\ lastResp.status = 200) =>
          /\ Cardinality(get_input_by_squad(lastResp.ch, lastResp.squad)) = 1
          /\ \A r \in get_input_by_squad(lastResp.ch, lastResp.squad) :
                /\ r.input_data = lastResp.input_data
                /\ r.result_data = lastResp.result_data

C4_Witness ==
    /\ lastResp.op = "input"
    /\ lastResp.hadRow
    /\ lastResp.script = "bad"
    /\ lastResp.status = 200
    /\ scriptRuns[lastResp.ch][lastResp.squad] = 1

(* C5: once a ChallengeInput row exists, no step of any operation changes,
   replaces or duplicates it; a submission in flight holds the created_at of
   that row, and a first success is scored from it. *)
C5_InputRowImmutable ==
    [][/\ \A r \in challenge_inputs :
            {x \in challenge_inputs' :
                x.challenge_id = r.challenge_id /\ x.squad_id = r.squad_id} = {r}
       /\ \A p \in Procs :
            (procs[p].pc = "ss_first" /\ procs'[p].pc = "ss_commit") =>
                \E r \in challenge_inputs' :
                    /\ r.challenge_id = procs[p].ch
                    /\ r.squad_id = procs[p].squad
                    /\ r.created_at = procs[p].origin
                    /\ procs'[p].is_first_success =>
                          procs'[p].points_earned = _calculate_points(procs[p].ch, r.created_at)
      ]_vars

C5_Witness ==
    \E r \in challenge_inputs :
        /\ r.created_at < now
        /\ challenges[r.challenge_id].is_announced
        /\ \E i \in FirstSuccessIndexes(r.challenge_id, r.squad_id) :
              /\ submissions[i].points_earned > 0
              /\ submissions[i].points_earned < MAX_POINTS

(* C6: a challenge that is announced is released: 'announced but not
   released' is unreachable by mark_released and mark_announced calls. *)
C6_AnnouncedImpliesReleased ==
    \A c \in ChallengeIds : challenges[c].is_announced => challenges[c].is_released

(* C7: mark_released and mark_announced are set-once: a call on a challenge
   whose flag is set leaves the flag and its timestamp as they were. *)
C7_SetOnce ==
    [][\A c \in ChallengeIds :
          /\ challenges[c].is_released =>
                /\ challenges'[c].is_released
                /\ challenges'[c].released_at = challenges[c].released_at
          /\ challenges[c].is_announced =>
                /\ challenges'[c].is_announced
                /\ challenges'[c].announced_at = challenges[c].announced_at
      ]_vars

(* C8: a submit_solution that starts when its squad holds a first success for
   the challenge succeeds, appends one row, and returns is_first_success =
   false with no points, whether the answer is correct or not. *)
C8_ResubmissionEarnsNothing ==
    [][(lastResp' # lastResp /\ lastResp'.op = "submit" /\ lastResp'.hadFirst) =>
          /\ lastResp'.status = 200
          /\ ~lastResp'.is_first_success
          /\ lastResp'.points_earned = None
          /\ Len(submissions') = Len(submissions) + 1
          /\ SubSeq(submissions', 1, Len(submissions)) = submissions
          /\ LET row == submissions'[Len(submissions')]
             IN  /\ row.challenge_id = lastResp'.ch
                 /\ row.squad_id = lastResp'.squad
                 /\ row.is_correct = lastResp'.is_correct
                 /\ ~row.is_first_success
                 /\ row.points_earned = None
      ]_vars

C8_Witness ==
    /\ lastResp.op = "submit"
    /\ lastResp.hadFirst
    /\ lastResp.is_correct
    /\ lastResp.status = 200
    /\ Len(submissions) = 2
    /\ submissions[1].is_first_success
    /\ submissions[1].user_id # submissions[2].user_id

(* C9: first success is owned per squad: the first correct row of a squad
   on a challenge is a first success with points, whatever rows other squads
   have on that challenge. *)
C9_FirstSuccessPerSquad ==
    \A i \in RowIndexes :
        (/\ submissions[i].is_correct
         /\ \A j \in 1..(i - 1) :
               ~(/\ submissions[j].challenge_id = submissions[i].challenge_id
                 /\ submissions[j].squad_id = submissions[i].squad_id
                 /\ submissions[j].is_correct))
        => /\ submissions[i].is_first_success
           /\ submissions[i].points_earned # None

C9_Witness ==
    \E c \in ChallengeIds :
        /\ FirstSuccessIndexes(c, "A") # {}
        /\ FirstSuccessIndexes(c, "B") # {}
        /\ \A i \in FirstSuccessIndexes(c, "A"), j \in FirstSuccessIndexes(c, "B") : i < j

(* C10: a first success credits every member of the squad once in the
   ledger, each with points_earned; no other submission credits anything. *)
Credits(u, amount) ==
    {k \in 1..Len(ledger) : ledger[k].user_id = u /\ ledger[k].amount = amount}

C10_FirstSuccessCredited ==
    /\ \A i \in RowIndexes : submissions[i].is_first_success =>
          \A u \in get_squad_members(submissions[i].squad_id) :
              Cardinality(Credits(u, submissions[i].points_earned)) >= 1
    /\ Len(ledger) =
          Cardinality({<<i, u>> \in RowIndexes \X Users :
              /\ submissions[i].is_first_success
              /\ u \in get_squad_members(submissions[i].squad_id)})

----------------------------------------------------------------------------
(* The release gate: the last challenge of the campaign, whose release time
   lies after the campaign start, with the poller's mark-released and the
   input and submission requests of one squad *)
LastChallenge == {c \in ChallengeIds : order_position(c) = NumChallenges}

NextGate ==
    \/ Tick
    \/ \E c \in LastChallenge : MarkReleased(c)
    \/ \E p \in Procs, c \in LastChallenge, u \in get_squad_members("A") :
          InputStart(p, c, u, "gen")
    \/ \E p \in Procs : InputCommit(p)
    \/ \E p \in Procs, c \in LastChallenge, u \in get_squad_members("A"),
          t \in Texts : SubmitStart(p, c, u, t)
    \/ \E p \in Procs : SubmitFirst(p)
    \/ \E p \in Procs : SubmitCommit(p)

SpecGate == Init /\ [][NextGate]_vars

(* C11: an input request by a squad member that is answered strictly before
   the challenge's release_time is answered with a permission error (403),
   whatever mark_released calls came before. *)
C11_InputBeforeReleaseTimeForbidden ==
    [][(/\ lastResp' # lastResp
        /\ lastResp'.op = "input"
        /\ lastResp'.squad # NoSquad
        /\ lastResp'.ch \in ChallengeIds
        /\ now' < calculate_release_time(lastResp'.ch))
       => lastResp'.status = 403
      ]_vars

(* C12: while a challenge's is_released flag is false, an input request or a
   submit-solution of a squad member is answered 403 and the step runs no
   script and stores no row; no request is in flight on such a challenge. *)
C12_UnreleasedRejected ==
    [][/\ \A p \in Procs :
            procs[p].pc # "idle" => challenges[procs[p].ch].is_released
       /\ (/\ lastResp' # lastResp
           /\ lastResp'.op \in {"input", "submit"}
           /\ lastResp'.squad # NoSquad
           /\ lastResp'.ch \in ChallengeIds
           /\ ~challenges[lastResp'.ch].is_released)
          => /\ lastResp'.status = 403
             /\ UNCHANGED <<challenge_inputs, submissions, scriptRuns, ledger,
                   quest_submissions>>
      ]_vars

C12_Witness ==
    /\ lastResp.op = "submit"
    /\ lastResp.status = 403
    /\ lastResp.squad = "A"
    /\ ~challenges[lastResp.ch].is_released
    /\ now >= calculate_release_time(lastResp.ch)
    /\ challenge_inputs = {}
    /\ submissions = <<>>
    /\ TotalScriptRuns = 0

----------------------------------------------------------------------------
(* Failures inside submit_solution *)

(* _calculate_points catches whatever its queries or the scoring raise and
   returns 0: the first success goes on with 0 points *)
SubmitFirstScoringFails(p) ==
    /\ procs[p].pc = "ss_first"
    /\ IsFirstSuccess(procs[p].ch, procs[p].squad)
    /\ procs' = [procs EXCEPT
           ![p].pc = "ss_commit",
           ![p].is_first_success = TRUE,
           ![p].points_earned = 0,
           ![p].failed = TRUE]
    /\ UNCHANGED <<now, challenges, challenge_inputs, submissions, lastResp,
                   scriptRuns, ledger,
                   quest_submissions>>

(* A statement of the session fails (first-success lookup, insert, commit):
   rollback, DatabaseOperationError, answered 500 *)
SubmitFail(p) ==
    /\ procs[p].pc \in {"ss_first", "ss_commit"}
    /\ Respond(p, [Response("submit", procs[p].ch, procs[p].squad, 500) EXCEPT
                      !.hadFirst = procs[p].hadFirst,
                      !.failed = TRUE])
    /\ UNCHANGED <<now, challenges, challenge_inputs, submissions, scriptRuns, ledger,
                   quest_submissions>>

NextFaults ==
    \/ NextSubmit
    \/ \E p \in Procs : SubmitFirstScoringFails(p)
    \/ \E p \in Procs : SubmitFail(p)

SpecFaults == InitSubmit /\ [][NextFaults]_vars

(* C13: a submit-solution of a squad member on a released challenge for which
   the squad has no ChallengeInput row is answered with a client error (4xx)
   and stores no submission row. *)
C13_NoInputIsClientError ==
    [][(/\ lastResp' # lastResp
        /\ lastResp'.op = "submit"
        /\ lastResp'.squad # NoSquad
        /\ lastResp'.ch \in ChallengeIds
        /\ challenges[lastResp'.ch].is_released
        /\ ~InputRowExists(lastResp'.ch, lastResp'.squad))
       => /\ lastResp'.status \in 400..499
          /\ submissions' = submissions
      ]_vars

(* C14: the submission rows only grow, one row at a time; a submit_solution
   that passed the input check ends by appending exactly one row, which keeps
   the submitter, the submitted text and its correctness, correct or not,
   also when an identical row is already there. *)
C14_EveryAttemptPersisted ==
    [][/\ Len(submissions') \in {Len(submissions), Len(submissions) + 1}
       /\ SubSeq(submissions', 1, Len(submissions)) = submissions
       /\ \A p \in Procs :
            (procs[p].pc \in {"ss_first", "ss_commit"} /\ procs'[p].pc = "idle") =>
                /\ Len(submissions') = Len(submissions) + 1
                /\ LET row == submissions'[Len(submissions')]
                   IN  /\ row.challenge_id = procs[p].ch
                       /\ row.squad_id = procs[p].squad
                       /\ row.user_id = procs[p].user
                       /\ row.submitted_solution = procs[p].text
                       /\ row.is_correct = procs[p].is_correct
      ]_vars

C14_Witness ==
    /\ Len(submissions) = 2
    /\ submissions[1] = submissions[2]
    /\ ~submissions[1].is_correct
    /\ lastResp.op = "submit"
    /\ lastResp.status = 200

(* C15: submit_solution is all-or-nothing: a call in which a step failed
   (first-success lookup, scoring, insert, commit) answers with an error and
   leaves the submission rows and the ledger as they were; no first-success
   row is stored without points_earned. *)
C15_AllOrNothing ==
    [][/\ \A i \in 1..Len(submissions') :
            submissions'[i].is_first_success => submissions'[i].points_earned # None
       /\ (lastResp' # lastResp /\ lastResp'.op = "submit" /\ lastResp'.failed)
          => /\ lastResp'.status >= 400
             /\ submissions' = submissions
             /\ ledger' = ledger
      ]_vars

----------------------------------------------------------------------------
(* The announcement poller's queries *)

is_active == TRUE

(* A query that selects on the release flag and forgets the announcement *)
pending_by_release_flag ==
    {c \in ChallengeIds :
        challenges[c].is_released /\ is_active /\ now >= calculate_release_time(c)}

get_pending_announcements ==
    LET all_pending == {c \in ChallengeIds : ~challenges[c].is_announced /\ is_active}
    IN  {c \in all_pending : now >= calculate_release_time(c)}

get_upcoming_announcements(upcoming_time) ==
    LET all_pending == {c \in ChallengeIds : ~challenges[c].is_announced /\ is_active}
    IN  {c \in all_pending :
            now < calculate_release_time(c) /\ calculate_release_time(c) <= upcoming_time}

(* GET /challenges/pending-announcements *)
PendingAnnouncements ==
    /\ lastResp' = [Response("pending", 0, NoSquad, 200) EXCEPT
                       !.listed = get_pending_announcements]
    /\ UNCHANGED <<now, challenges, challenge_inputs, submissions, procs,
                   scriptRuns, ledger,
                   quest_submissions>>

(* GET /challenges/upcoming-announcements?seconds=N, N in the clock's unit *)
Windows == 0..MaxTime

UpcomingAnnouncements(seconds) ==
    /\ lastResp' = [Response("upcoming", 0, NoSquad, 200) EXCEPT
                       !.window = seconds,
                       !.listed = get_upcoming_announcements(now + seconds)]
    /\ UNCHANGED <<now, challenges, challenge_inputs, submissions, procs,
                   scriptRuns, ledger,
                   quest_submissions>>

NextPoller ==
    \/ Tick
    \/ \E c \in ChallengeIds : MarkReleased(c)
    \/ \E c \in ChallengeIds : MarkAnnounced(c)
    \/ PendingAnnouncements
    \/ \E seconds \in Windows : UpcomingAnnouncements(seconds)

SpecPoller == Init /\ [][NextPoller]_vars

(* C16: pending_announcements returns exactly the challenges that are
   released, not announced and whose release_time has passed; it returns no
   challenge whose is_released flag is false. *)
C16_PendingAreReleased ==
    [][(lastResp' # lastResp /\ lastResp'.op = "pending") =>
          lastResp'.listed =
              {c \in ChallengeIds :
                  /\ challenges[c].is_released
                  /\ ~challenges[c].is_announced
                  /\ calculate_release_time(c) <= now}
      ]_vars

(* C17: upcoming_announcements(N) returns exactly the challenges that are not
   released and whose release_time lies in (now, now + N]; it returns no
   challenge that is released. *)
C17_UpcomingAreUnreleased ==
    [][(lastResp' # lastResp /\ lastResp'.op = "upcoming") =>
          lastResp'.listed =
              {c \in ChallengeIds :
                  /\ ~challenges[c].is_released
                  /\ now < calculate_release_time(c)
                  /\ calculate_release_time(c) <= now + lastResp'.window}
      ]_vars

----------------------------------------------------------------------------
(* ScoreboardAggregator *)

(* The database also holds an earlier campaign: one challenge, on which squad
   B holds a first success and squad A an incorrect attempt *)
Campaigns == {"main", "other"}
OtherChallenge == NumChallenges + 1

campaign_id(c) == IF c \in ChallengeIds THEN "main" ELSE "other"

OtherCampaignSubmissions ==
    <<[challenge_id |-> OtherChallenge, squad_id |-> "B", user_id |-> "u3",
       submitted_solution |-> <<"7">>, is_correct |-> TRUE,
       is_first_success |-> TRUE, points_earned |-> MAX_POINTS],
      [challenge_id |-> OtherChallenge, squad_id |-> "A", user_id |-> "u1",
       submitted_solution |-> <<"7">>, is_correct |-> FALSE,
       is_first_success |-> FALSE, points_earned |-> None]>>

(* Table challenge_submissions, every campaign's rows *)
submission_table == OtherCampaignSubmissions \o submissions

(* SUM skips NULL *)
SumPoints(rows) ==
    SumOver([i \in rows |-> IF submission_table[i].points_earned = None THEN 0
                            ELSE submission_table[i].points_earned], rows)

(* The aggregate over every campaign's rows *)
scoreboard_of_all_campaigns(campaign) ==
    LET joined(s) == {i \in 1..Len(submission_table) : submission_table[i].squad_id = s}
    IN  {[squad_id |-> s,
          total_points |-> SumPoints(joined(s)),
          successful_submissions |->
              Cardinality({i \in joined(s) : submission_table[i].is_first_success})] :
            s \in {x \in Squads : joined(x) # {}}}

(* The aggregate that keeps a squad's latest row only *)
scoreboard_of_latest_rows(campaign) ==
    LET joined(s) == {i \in 1..Len(submission_table) :
                         /\ submission_table[i].squad_id = s
                         /\ campaign_id(submission_table[i].challenge_id) = campaign}
        latest(s) == {i \in joined(s) : \A j \in joined(s) : j <= i}
    IN  {[squad_id |-> s,
          total_points |-> SumPoints(latest(s)),
          successful_submissions |->
              Cardinality({i \in joined(s) : submission_table[i].is_first_success})] :
            s \in {x \in Squads : joined(x) # {}}}

(* Squad outer-joined to its submissions and their challenges, restricted to
   the campaign's challenges, grouped by squad *)
get_campaign_scoreboard(campaign) ==
    LET joined(s) == {i \in 1..Len(submission_table) :
                         /\ submission_table[i].squad_id = s
                         /\ campaign_id(submission_table[i].challenge_id) = campaign}
    IN  {[squad_id |-> s,
          total_points |-> SumPoints(joined(s)),
          successful_submissions |->
              Cardinality({i \in joined(s) : submission_table[i].is_first_success})] :
            s \in {x \in Squads : joined(x) # {}}}

(* ORDER BY total_points DESC: any order among equal totals *)
OrderedByPoints(entries) ==
    {sb \in [1..Cardinality(entries) -> entries] :
        /\ \A i, j \in 1..Cardinality(entries) : i # j => sb[i] # sb[j]
        /\ \A i, j \in 1..Cardinality(entries) :
              i < j => sb[i].total_points >= sb[j].total_points}

(* GET /challenges/scoreboard for a campaign *)
Scoreboard(campaign) ==
    /\ \E sb \in OrderedByPoints(get_campaign_scoreboard(campaign)) :
          lastResp' = [Response("scoreboard", 0, NoSquad, 200) EXCEPT
                          !.campaign = campaign, !.scoreboard = sb]
    /\ UNCHANGED <<now, challenges, challenge_inputs, submissions, procs,
                   scriptRuns, ledger,
                   quest_submissions>>

NextScore ==
    \/ NextSubmit
    \/ \E k \in Campaigns : Scoreboard(k)

SpecScore == InitSubmit /\ [][NextScore]_vars

(* The scoreboard next to every operation on the first challenge, as one
   member of squad A and the poller exercise it *)
NextBoard ==
    \/ Tick
    \/ \E c \in FirstChallenge : MarkReleased(c)
    \/ \E c \in FirstChallenge : MarkAnnounced(c)
    \/ \E p \in Procs, c \in FirstChallenge : InputStart(p, c, "u1", "gen")
    \/ \E p \in Procs : InputCommit(p)
    \/ \E p \in Procs, c \in FirstChallenge, t \in Texts : SubmitStart(p, c, "u1", t)
    \/ \E p \in Procs : SubmitFirst(p)
    \/ \E p \in Procs : SubmitCommit(p)
    \/ \E k \in Campaigns : Scoreboard(k)

SpecBoard == Init /\ [][NextBoard]_vars

FirstSuccessRows(campaign, s) ==
    {i \in 1..Len(submission_table) :
        /\ submission_table[i].squad_id = s
        /\ campaign_id(submission_table[i].challenge_id) = campaign
        /\ submission_table[i].is_first_success}

RECURSIVE PointsOf(_)
PointsOf(rows) ==
    IF rows = {} THEN 0
    ELSE LET i == CHOOSE j \in rows : TRUE
         IN  submission_table[i].points_earned + PointsOf(rows \ {i})

(* C18: every entry of campaign_scoreboard(campaign) reports, for its squad,
   the sum of points_earned over the squad's first-success rows on the
   campaign's challenges and the number of those rows; rows of another
   campaign count for nothing. *)
C18_ScoreboardTotals ==
    [][(lastResp' # lastResp /\ lastResp'.op = "scoreboard") =>
          \A i \in 1..Len(lastResp'.scoreboard) :
              LET e == lastResp'.scoreboard[i]
                  rows == FirstSuccessRows(lastResp'.campaign, e.squad_id)
              IN  /\ e.total_points = PointsOf(rows)
                  /\ e.successful_submissions = Cardinality(rows)
      ]_vars

C18_Witness ==
    /\ lastResp.op = "scoreboard"
    /\ lastResp.campaign = "main"
    /\ \E i \in 1..Len(lastResp.scoreboard) :
          /\ lastResp.scoreboard[i].squad_id = "B"
          /\ lastResp.scoreboard[i].successful_submissions = 1
          /\ lastResp.scoreboard[i].total_points > 0
          /\ lastResp.scoreboard[i].total_points < MAX_POINTS
    /\ \E i \in 1..Len(lastResp.scoreboard) :
          /\ lastResp.scoreboard[i].squad_id = "A"
          /\ lastResp.scoreboard[i].total_points = MAX_POINTS

(* C19: campaign_scoreboard(campaign) lists a squad if and only if the squad
   holds a first-success row on a challenge of the campaign. *)
C19_ListedIffFirstSuccess ==
    [][(lastResp' # lastResp /\ lastResp'.op = "scoreboard") =>
          {lastResp'.scoreboard[i].squad_id : i \in 1..Len(lastResp'.scoreboard)}
            = {s \in Squads : FirstSuccessRows(lastResp'.campaign, s) # {}}
      ]_vars

(* C20: whatever operation takes a step, a squad that campaign_scoreboard
   lists before the step is listed after it, with total_points not lower. *)
C20_TotalsNeverDecrease ==
    [][\A k \in Campaigns : \A e \in get_campaign_scoreboard(k) :
          \E f \in get_campaign_scoreboard(k)' :
              /\ f.squad_id = e.squad_id
              /\ f.total_points >= e.total_points
      ]_vars

C20_Witness ==
    /\ lastResp.op = "scoreboard"
    /\ lastResp.campaign = "main"
    /\ Len(submissions) = 2
    /\ submissions[1].is_first_success
    /\ ~submissions[2].is_correct
    /\ \E c \in FirstChallenge : challenges[c].is_announced
    /\ \E i \in 1..Len(lastResp.scoreboard) :
          /\ lastResp.scoreboard[i].squad_id = "A"
          /\ lastResp.scoreboard[i].total_points = submissions[1].points_earned
          /\ lastResp.scoreboard[i].total_points > 0

----------------------------------------------------------------------------
(* ScoringEngine on its own: the curve evaluated for arbitrary times *)

MaxScoreTime == 5
ScoreTimes == 0..MaxScoreTime

ScorePoints(t0, t, end) ==
    /\ lastResp' = [Response("score", 0, NoSquad, 200) EXCEPT
                       !.args = [t0 |-> t0, t |-> t, end |-> end],
                       !.points_earned = calculate_challenge_points(t0, t, end)]
    /\ UNCHANGED <<now, challenges, challenge_inputs, submissions, procs,
                   scriptRuns, ledger,
                   quest_submissions>>

NextScoring == \E t0 \in ScoreTimes, t \in ScoreTimes, end \in ScoreTimes :
                  ScorePoints(t0, t, end)

SpecScoring == Init /\ [][NextScoring]_vars

(* C21: every points_earned stored on a first-success row is an integer in
   [0, 4096], also for a submission after the campaign end and for a score
   computation that failed. *)
C21_PointsInRange ==
    \A i \in RowIndexes :
        submissions[i].is_first_success =>
            submissions[i].points_earned \in 0..MAX_POINTS

C21_Witness ==
    /\ lastResp.op = "submit"
    /\ lastResp.failed
    /\ lastResp.status = 200
    /\ lastResp.is_first_success
    /\ lastResp.points_earned = 0
    /\ \E i \in RowIndexes :
          /\ submissions[i].is_first_success
          /\ submissions[i].points_earned = 0
          /\ submissions[i].squad_id # lastResp.squad
    /\ now >= CampaignEnd

(* C22: with t0 and end fixed, the points do not increase with the submission
   time: of two evaluations with t1 <= t2, the second gives no more than the
   first, in the early decay, in the linear decay and across their boundary. *)
C22_NonIncreasingInTime ==
    [][(/\ lastResp.op = "score"
        /\ lastResp'.op = "score"
        /\ lastResp'.args.t0 = lastResp.args.t0
        /\ lastResp'.args.end = lastResp.args.end
        /\ lastResp.args.t <= lastResp'.args.t)
       => lastResp'.points_earned <= lastResp.points_earned
      ]_vars

C22_Witness ==
    /\ lastResp.op = "score"
    /\ lastResp.args.end - lastResp.args.t0 >= 3
    /\ lastResp.args.t - lastResp.args.t0 = 3
    /\ lastResp.args.t < lastResp.args.end
    /\ lastResp.points_earned > 0
    /\ lastResp.points_earned < MAX_POINTS

(* C23: a first success scored at the very time its input was generated,
   before the campaign end, earns 4096; one scored at or after the campaign
   end, start_time + number of challenges * cadence_hours, earns 0. *)
C23_FullAtOriginZeroAtEnd ==
    [][\A p \in Procs :
          (/\ procs[p].pc = "ss_first"
           /\ procs'[p].pc = "ss_commit"
           /\ procs'[p].is_first_success
           /\ ~procs'[p].failed)
          => /\ now >= CampaignStart + NumChallenges * CadenceHours
                   => procs'[p].points_earned = 0
             /\ (/\ procs[p].origin = now
                 /\ now < CampaignStart + NumChallenges * CadenceHours)
                   => procs'[p].points_earned = MAX_POINTS
      ]_vars

C23_Witness ==
    /\ Len(submissions) = 1
    /\ submissions[1].is_first_success
    /\ submissions[1].points_earned = MAX_POINTS
    /\ now > CampaignStart
    /\ \E r \in challenge_inputs : r.created_at = now
    /\ lastResp.op = "submit"

----------------------------------------------------------------------------
(* C24: when the generator script raises or breaks the JSON contract,
   get_or_create_input fails with ScriptExecutionError, the endpoint answers
   500 and no ChallengeInput row is stored. *)
C24_ScriptFailureIsScriptExecutionError ==
    [][(lastResp' # lastResp /\ lastResp'.op = "input" /\ lastResp'.failed) =>
          /\ lastResp'.status = 500
          /\ lastResp'.error = "ScriptExecutionError"
          /\ challenge_inputs' = challenge_inputs
      ]_vars

(* C25: every get_or_create_input call that ran the script completes with
   success and returns the pair of the single stored row, also when another
   call stored the row first. *)
C25_RaceLoserReturnsWinnerRow ==
    [][\A p \in Procs :
          (procs[p].pc = "gi_commit" /\ procs'[p].pc = "idle") =>
              /\ lastResp'.status = 200
              /\ \A r \in challenge_inputs' :
                    (r.challenge_id = procs[p].ch /\ r.squad_id = procs[p].squad) =>
                        /\ r.input_data = lastResp'.input_data
                        /\ r.result_data = lastResp'.result_data
      ]_vars

(* C26: there is at most one ChallengeInput row per (challenge, squad), also
   after concurrent get_or_create_input calls for the pair. *)
C26_OneInputRowPerPair ==
    \A c \in ChallengeIds, s \in Squads : Cardinality(get_input_by_squad(c, s)) <= 1

C26_Witness ==
    /\ lastResp.op = "input"
    /\ lastResp.status = 500
    /\ ~lastResp.failed
    /\ lastResp.error = "DatabaseOperationError"
    /\ scriptRuns[lastResp.ch][lastResp.squad] = 2
    /\ Cardinality(get_input_by_squad(lastResp.ch, lastResp.squad)) = 1

----------------------------------------------------------------------------
(* detailed_scoreboard: the per-challenge breakdown *)

Titles == {"alpha", "beta"}

TitleRank(t) == CASE t = "alpha" -> 1 [] t = "beta" -> 2 [] OTHER -> 3

SquadRank(s) == IF s = "A" THEN 1 ELSE 2

title(c) == IF c \in DOMAIN challenges THEN challenges[c].title ELSE "omega"

(* The joined rows: first successes on the campaign's challenges *)
detailed_submissions(campaign) ==
    {i \in 1..Len(submission_table) :
        /\ campaign_id(submission_table[i].challenge_id) = campaign
        /\ submission_table[i].is_correct
        /\ submission_table[i].is_first_success}

(* points = submission.points_earned or 0 *)
PointsOrZero(i) ==
    IF submission_table[i].points_earned = None THEN 0
    ELSE submission_table[i].points_earned

(* The rows collected under one title, ordered by squad name by the query
   and then stably sorted by points, descending *)
SquadsOfTitle(rows) ==
    LET n == Cardinality(rows)
        order == CHOOSE f \in [1..n -> rows] :
                    /\ \A i, j \in 1..n : i # j => f[i] # f[j]
                    /\ \A i, j \in 1..n : i < j =>
                          \/ PointsOrZero(f[i]) > PointsOrZero(f[j])
                          \/ /\ PointsOrZero(f[i]) = PointsOrZero(f[j])
                             /\ SquadRank(submission_table[f[i]].squad_id)
                                   <= SquadRank(submission_table[f[j]].squad_id)
    IN  [k \in 1..n |-> [squad_id |-> submission_table[order[k]].squad_id,
                         points_earned |-> PointsOrZero(order[k])]]

RECURSIVE SortedTitles(_)
SortedTitles(T) ==
    IF T = {} THEN <<>>
    ELSE LET first == CHOOSE t \in T : \A u \in T : TitleRank(t) <= TitleRank(u)
         IN  <<first>> \o SortedTitles(T \ {first})

(* challenges_breakdown: one entry per title seen in the rows *)
challenges_breakdown(campaign) ==
    LET rows == detailed_submissions(campaign)
        seen == {title(submission_table[i].challenge_id) : i \in rows}
        titles == SortedTitles(seen)
    IN  [k \in 1..Len(titles) |->
            [challenge_title |-> titles[k],
             submissions |-> SquadsOfTitle(
                 {i \in rows : title(submission_table[i].challenge_id) = titles[k]})]]

DetailedScoreboard(campaign) ==
    /\ lastResp' = [Response("detailed", 0, NoSquad, 200) EXCEPT
                       !.campaign = campaign,
                       !.scoreboard = challenges_breakdown(campaign)]
    /\ UNCHANGED <<now, challenges, challenge_inputs, submissions, procs,
                   scriptRuns, ledger,
                   quest_submissions>>

(* The campaign's challenges carry titles an administrator chose; nothing
   keeps two challenges from sharing one *)
InitDetailed ==
    /\ now = CampaignStart
    /\ \E ttl \in [ChallengeIds -> Titles] :
          challenges = [c \in ChallengeIds |->
              [is_released |-> TRUE, released_at |-> CampaignStart,
               is_announced |-> FALSE, announced_at |-> None,
               title |-> ttl[c]]]
    /\ challenge_inputs =
            {GeneratedInput(c, s) : c \in ChallengeIds, s \in Squads}
              \ {GeneratedInput(NumChallenges, "B")}
    /\ submissions = <<>>
    /\ procs = [p \in Procs |-> Idle]
    /\ lastResp = [Response("input", 1, "A", 200) EXCEPT
                      !.input_data = <<"i">>, !.result_data = <<" ", "a">>]
    /\ scriptRuns = [c \in ChallengeIds |-> [s \in Squads |->
            IF GeneratedInput(c, s) \in challenge_inputs THEN 1 ELSE 0]]
    /\ ledger = <<>>
    /\ quest_submissions = <<>>

NextDetailed ==
    \/ NextSubmit
    \/ \E k \in Campaigns : DetailedScoreboard(k)

SpecDetailed == InitDetailed /\ [][NextDetailed]_vars

(* C27: every entry of the per-challenge breakdown stands for exactly one
   challenge of the campaign and lists exactly the squads that hold a
   first-success row on that challenge, each squad once. *)
C27_BreakdownPerChallenge ==
    [][(lastResp' # lastResp /\ lastResp'.op = "detailed") =>
          \A k \in 1..Len(lastResp'.scoreboard) :
              LET e == lastResp'.scoreboard[k]
                  cs == {c \in ChallengeIds \cup {OtherChallenge} :
                            /\ campaign_id(c) = lastResp'.campaign
                            /\ title(c) = e.challenge_title}
              IN  /\ Cardinality(cs) = 1
                  /\ \A c \in cs :
                        {e.submissions[i].squad_id : i \in 1..Len(e.submissions)}
                          = {s \in Squads : \E i \in 1..Len(submission_table) :
                                /\ submission_table[i].challenge_id = c
                                /\ submission_table[i].squad_id = s
                                /\ submission_table[i].is_first_success}
                  /\ \A i, j \in 1..Len(e.submissions) :
                        i # j => e.submissions[i].squad_id # e.submissions[j].squad_id
      ]_vars

----------------------------------------------------------------------------
(* C28: a challenge whose release_time has passed and that is not announced
   is in every pending_announcements answer; once mark_announced has set
   is_announced it stays set, and no pending_announcements or
   upcoming_announcements answer holds the challenge again. *)
C28_AnnouncedNeverPendingAgain ==
    [][/\ \A c \in ChallengeIds :
            challenges[c].is_announced => challenges'[c].is_announced
       /\ (lastResp' # lastResp /\ lastResp'.op = "pending") =>
            \A c \in ChallengeIds :
                /\ (now >= calculate_release_time(c) /\ ~challenges[c].is_announced)
                      => c \in lastResp'.listed
                /\ challenges[c].is_announced => c \notin lastResp'.listed
       /\ (lastResp' # lastResp /\ lastResp'.op = "upcoming") =>
            \A c \in ChallengeIds :
                challenges[c].is_announced => c \notin lastResp'.listed
      ]_vars

C28_Witness ==
    /\ lastResp.op = "pending"
    /\ \E c \in ChallengeIds :
          /\ challenges[c].is_announced
          /\ challenges[c].is_released
          /\ challenges[c].announced_at < now
          /\ c \notin lastResp.listed
    /\ \E c \in ChallengeIds :
          /\ c \in lastResp.listed
          /\ ~challenges[c].is_announced
          /\ now >= calculate_release_time(c)

(* C29: a first success whose score computation failed is committed with
   points_earned = 0 and answered as a success; a submission of the squad
   that starts once a first success is stored earns nothing. *)
C29_FailedScoreConsumesSlot ==
    [][/\ \A p \in Procs :
            (/\ procs[p].pc = "ss_commit"
             /\ procs[p].failed
             /\ procs'[p].pc = "idle"
             /\ lastResp'.status = 200)
            => /\ Len(submissions') = Len(submissions) + 1
               /\ submissions'[Len(submissions')].is_first_success
               /\ submissions'[Len(submissions')].points_earned = 0
               /\ lastResp'.is_first_success
               /\ lastResp'.points_earned = 0
       /\ (/\ lastResp' # lastResp
           /\ lastResp'.op = "submit"
           /\ lastResp'.hadFirst
           /\ lastResp'.status = 200)
          => /\ ~lastResp'.is_first_success
             /\ lastResp'.points_earned = None
      ]_vars

C29_Witness ==
    /\ Len(submissions) = 2
    /\ submissions[1].is_first_success
    /\ submissions[1].points_earned = 0
    /\ now < CampaignEnd
    /\ submissions[2].squad_id = submissions[1].squad_id
    /\ submissions[2].challenge_id = submissions[1].challenge_id
    /\ submissions[2].is_correct
    /\ ~submissions[2].is_first_success
    /\ submissions[2].points_earned = None
    /\ lastResp.op = "submit"
    /\ lastResp.hadFirst

----------------------------------------------------------------------------
(* Daily quests: QuestSubmissionOperations.submit_solution.  The quest has
   one frozen input; a submission names the submitting user and the squad the
   caller resolved for that user. *)

QuestResult == <<"7", " ">>

quest_calculate_points == 20

(* the squad's first-success row of the daily quest, if any *)
quest_first_success_for_squad(squad) ==
    {k \in 1..Len(quest_submissions) :
        /\ quest_submissions[k].squad_id = squad
        /\ quest_submissions[k].is_first_success}

(* balance.balance += amount: adding None to an integer raises TypeError,
   which create_system_reward re-raises as DatabaseOperationError *)
create_system_reward_raises(amount) == amount = None

RECURSIVE RewardRows(_, _)
RewardRows(members, amount) ==
    IF members = {} THEN <<>>
    ELSE LET m == CHOOSE u \in members : TRUE
         IN  <<[user_id |-> m, amount |-> amount]>>
                \o RewardRows(members \ {m}, amount)

NewQuestSubmissionRow(squad, user, text, is_correct, is_first_success, points_earned) ==
    [squad_id |-> squad, user_id |-> user, submitted_solution |-> text,
     is_correct |-> is_correct, is_first_success |-> is_first_success,
     points_earned |-> points_earned]

QuestSubmit(user, text) ==
    LET squad == get_user_squad(user)
        is_correct == IsCorrect(QuestResult, text)
        is_first_success == is_correct /\ quest_first_success_for_squad(squad) = {}
        points_earned == IF is_first_success THEN quest_calculate_points ELSE None
        members == get_squad_members(squad)
        raised == /\ is_correct
                  /\ members # {}
                  /\ create_system_reward_raises(points_earned)
        resp == [NoResp EXCEPT !.op = "quest_submit", !.squad = squad]
    IN  /\ Len(quest_submissions) < MaxSubmissions
        /\ IF raised
           THEN \* session.rollback(); raise DatabaseOperationError
                /\ lastResp' = [resp EXCEPT !.failed = TRUE,
                                            !.error = "DatabaseOperationError"]
                /\ UNCHANGED <<ledger, quest_submissions>>
           ELSE /\ ledger' = IF is_correct
                             THEN ledger \o RewardRows(members, points_earned)
                             ELSE ledger
                /\ quest_submissions' =
                       Append(quest_submissions,
                              NewQuestSubmissionRow(squad, user, text, is_correct,
                                                    is_first_success, points_earned))
                /\ lastResp' = [resp EXCEPT !.is_correct = is_correct,
                                            !.is_first_success = is_first_success,
                                            !.points_earned = points_earned]
        /\ UNCHANGED <<now, challenges, challenge_inputs, submissions, procs,
                       scriptRuns>>

NextQuest ==
    \/ Tick
    \/ \E user \in Users, text \in Texts : QuestSubmit(user, text)

SpecQuest == Init /\ [][NextQuest]_vars

(* C30: for daily quests, a correct submission by a squad that already holds
   the first success of the quest is persisted as a correct, non-first row
   with null points, returns (true, false, null) and leaves every ledger
   balance as it was; a submission credits the squad's members only when it
   is the squad's first success. *)
C30_QuestResubmissionRecordedUncredited ==
    [][\A user \in Users, text \in Texts :
          QuestSubmit(user, text) =>
              /\ (/\ IsCorrect(QuestResult, text)
                  /\ \E k \in 1..Len(quest_submissions) :
                        /\ quest_submissions[k].squad_id = get_user_squad(user)
                        /\ quest_submissions[k].is_first_success)
                 => /\ lastResp'.error = "none"
                    /\ lastResp'.is_correct
                    /\ ~lastResp'.is_first_success
                    /\ lastResp'.points_earned = None
                    /\ Len(quest_submissions') = Len(quest_submissions) + 1
                    /\ quest_submissions'[Len(quest_submissions')].is_correct
                    /\ ~quest_submissions'[Len(quest_submissions')].is_first_success
                    /\ quest_submissions'[Len(quest_submissions')].points_earned = None
                    /\ ledger' = ledger
              /\ ledger' # ledger
                 => /\ Len(quest_submissions') = Len(quest_submissions) + 1
                    /\ quest_submissions'[Len(quest_submissions')].is_first_success
      ]_vars

====
